---- MODULE Spec2Model ----
(***************************************************************************)
(* RawMemory<T> and Vector<T> of src/vector.h as a state machine.          *)
(*                                                                         *)
(* The heap is a set of blocks; a block is a sequence of slots, and a slot *)
(* is either Raw (no constructed element) or the value of a constructed    *)
(* element.  A RawMemory is the pair buffer_/capacity_, a Vector is a      *)
(* RawMemory data_ and a size_.  Every public operation is one action; its *)
(* body threads a record m (heap, vectors, error flags, the pending fault) *)
(* through the statements of the C++ body in source order.  A fault input  *)
(* selects which fallible element operation of the call throws, and        *)
(* whether the allocation throws.                                          *)
(***************************************************************************)
EXTENDS Integers, Sequences, FiniteSets, TLC

\* ------------------------------------------------------------------ bounds
MaxLen == 3
AppendLen == 5
PairLen == 2
MaxVal == 1
NumBlocks == 3

\* ------------------------------------------------------------------ values
Null == 0
Raw == -1
MovedFrom == -2
DefaultVal == 0

Values == 0..MaxVal
Blocks == 1..NumBlocks
Tmp == 0
Vecs == {1, 2}
Raws == {1, 2}
Kinds == {"NothrowMove", "ThrowingMove", "MoveOnly"}

VARIABLES heap, vec, raw, err, kind, objs, faults, hist, last

vars == <<heap, vec, raw, err, kind, objs, faults, hist, last>>

\* ------------------------------------------------------------------ element type T
\* the branch `if constexpr (is_nothrow_move_constructible_v<T> || !is_copy_constructible_v<T>)`
UseMove == kind \in {"NothrowMove", "MoveOnly"}
Copyable == kind # "MoveOnly"
MoveCtorCanFail == kind # "NothrowMove"

\* ------------------------------------------------------------------ RawMemory
EmptyRaw == [buffer_ |-> Null, capacity_ |-> 0]
FreeBlock == [live |-> FALSE, slots |-> <<>>]
NoErr == [dblDestroy |-> FALSE, leak |-> FALSE, dblFree |-> FALSE, ub |-> FALSE]

Min(S) == CHOOSE x \in S : \A y \in S : x <= y

FreeIds(h) == {p \in Blocks : ~h[p].live}

\* an exception leaves the statement; the pending fault is used up
Throw(m, why) == [m EXCEPT !.thrown = TRUE, !.failed = why, !.fc = 0, !.af = FALSE]

\* the branch of the body the call takes
At(m, path) == [m EXCEPT !.path = path]

\* static T *Allocate(size_t n): operator new may throw; n == 0 gives nullptr.
\* The block handed out is left in m.ret.
Allocate(m, n) ==
    IF n # 0 /\ m.af THEN Throw(m, "alloc")
    ELSE IF n = 0 THEN [m EXCEPT !.ret = Null]
    ELSE IF FreeIds(m.heap) = {} THEN [m EXCEPT !.stuck = TRUE, !.thrown = TRUE]
    ELSE LET p == Min(FreeIds(m.heap))
         IN [m EXCEPT !.heap[p] = [live |-> TRUE, slots |-> [i \in 1..n |-> Raw]],
                      !.ret = p]

\* static void Deallocate(T *buf): operator delete; elements still constructed
\* in the block are lost, a block that is not live is freed twice
Deallocate(m, p) ==
    IF p = Null THEN m
    ELSE IF ~m.heap[p].live THEN [m EXCEPT !.err.dblFree = TRUE]
    ELSE LET lost == \E i \in 1..Len(m.heap[p].slots) : m.heap[p].slots[i] # Raw
         IN [m EXCEPT !.heap[p] = FreeBlock, !.err.leak = @ \/ lost]

\* explicit RawMemory(size_t capacity): the result is left in m.new_data
RawMemoryCtor(m, capacity) ==
    IF m.thrown THEN m
    ELSE LET m1 == Allocate(m, capacity)
         IN IF m1.thrown THEN m1
            ELSE [m1 EXCEPT !.new_data = [buffer_ |-> m1.ret, capacity_ |-> capacity]]

\* ------------------------------------------------------------------ element operations
Valid(m, p, i) == p \in Blocks /\ m.heap[p].live /\ i >= 0 /\ i < Len(m.heap[p].slots)

Slot(m, p, i) == m.heap[p].slots[i + 1]

\* reading a slot that holds no element yields the garbage value of this call
Read(m, p, i) == IF Valid(m, p, i) /\ Slot(m, p, i) # Raw THEN Slot(m, p, i) ELSE m.g

ReadFlag(m, p, i) ==
    IF Valid(m, p, i) /\ Slot(m, p, i) # Raw THEN m ELSE [m EXCEPT !.err.ub = TRUE]

Fails(m, can) == can /\ m.fc = 1

Tick(m, can) == IF can /\ m.fc > 0 THEN [m EXCEPT !.fc = @ - 1] ELSE m

\* placement new of value x at slot i of block p; an element already there is
\* overwritten without its destructor
Place(m, p, i, x) ==
    IF ~Valid(m, p, i) THEN [m EXCEPT !.err.ub = TRUE]
    ELSE [m EXCEPT !.heap[p].slots[i + 1] = x,
                   !.err.leak = @ \/ (Slot(m, p, i) # Raw),
                   !.ctors = @ + 1]

\* assignment to the element at slot i of block p
Store(m, p, i, x) ==
    IF ~Valid(m, p, i) \/ Slot(m, p, i) = Raw
    THEN [m EXCEPT !.err.ub = TRUE]
    ELSE [m EXCEPT !.heap[p].slots[i + 1] = x, !.assigns = @ + 1]

\* buf->~T()
DestroyAt(m, p, i) ==
    IF ~Valid(m, p, i) THEN [m EXCEPT !.err.ub = TRUE]
    ELSE IF Slot(m, p, i) = Raw THEN [m EXCEPT !.err.dblDestroy = TRUE]
    ELSE [m EXCEPT !.heap[p].slots[i + 1] = Raw, !.dtors = @ + 1]

\* new (p + i) T(args...) from a value of the caller
ConstructArg(m, p, i, x) ==
    IF m.thrown THEN m
    ELSE IF Fails(m, TRUE) THEN Throw(m, "elem")
    ELSE Place(Tick(m, TRUE), p, i, x)

\* new (p + i) T()
ValueConstruct(m, p, i) ==
    IF m.thrown THEN m
    ELSE IF Fails(m, TRUE) THEN Throw(m, "elem")
    ELSE Place(Tick(m, TRUE), p, i, DefaultVal)

\* new (dp + di) T(sp[si])
CopyConstruct(m, dp, di, sp, si) ==
    IF m.thrown THEN m
    ELSE IF Fails(m, TRUE) THEN Throw(m, "elem")
    ELSE Place(ReadFlag(Tick(m, TRUE), sp, si), dp, di, Read(m, sp, si))

\* the source of a move keeps a constructed, moved-from element
MarkMoved(m, sp, si) ==
    IF Valid(m, sp, si) /\ Slot(m, sp, si) # Raw
    THEN [m EXCEPT !.heap[sp].slots[si + 1] = MovedFrom]
    ELSE m

\* new (dp + di) T(std::move(sp[si]))
MoveConstruct(m, dp, di, sp, si) ==
    IF m.thrown THEN m
    ELSE IF Fails(m, MoveCtorCanFail) THEN Throw(m, "elem")
    ELSE MarkMoved(Place(ReadFlag(Tick(m, MoveCtorCanFail), sp, si), dp, di, Read(m, sp, si)),
                   sp, si)

\* dp[di] = sp[si]
CopyAssignElem(m, dp, di, sp, si) ==
    IF m.thrown THEN m
    ELSE IF Fails(m, TRUE) THEN Throw(m, "elem")
    ELSE Store(ReadFlag(Tick(m, TRUE), sp, si), dp, di, Read(m, sp, si))

\* dp[di] = std::move(sp[si])
MoveAssignElem(m, dp, di, sp, si) ==
    IF m.thrown THEN m
    ELSE IF Fails(m, TRUE) THEN Throw(m, "elem")
    ELSE MarkMoved(Store(ReadFlag(Tick(m, TRUE), sp, si), dp, di, Read(m, sp, si)),
                   sp, si)

\* ------------------------------------------------------------------ <memory>, <algorithm>
RECURSIVE DestroyN(_, _, _, _)
\* std::destroy_n(p + o, n); never throws, also runs while unwinding
DestroyN(m, p, o, n) ==
    IF n <= 0 THEN m ELSE DestroyN(DestroyAt(m, p, o), p, o + 1, n - 1)

RECURSIVE UninitValueLoop(_, _, _, _, _)
UninitValueLoop(m, p, o, n, i) ==
    IF i >= n THEN m
    ELSE LET m1 == ValueConstruct(m, p, o + i)
         IN IF m1.thrown THEN DestroyN(m1, p, o, i)
            ELSE UninitValueLoop(m1, p, o, n, i + 1)

\* std::uninitialized_value_construct_n(p + o, n): on a throw the elements
\* already constructed are destroyed
UninitValueConstructN(m, p, o, n) ==
    IF m.thrown THEN m ELSE UninitValueLoop(m, p, o, n, 0)

RECURSIVE UninitCopyLoop(_, _, _, _, _, _, _)
UninitCopyLoop(m, sp, so, n, dp, do, i) ==
    IF i >= n THEN m
    ELSE LET m1 == CopyConstruct(m, dp, do + i, sp, so + i)
         IN IF m1.thrown THEN DestroyN(m1, dp, do, i)
            ELSE UninitCopyLoop(m1, sp, so, n, dp, do, i + 1)

\* std::uninitialized_copy_n(sp + so, n, dp + do)
UninitCopyN(m, sp, so, n, dp, do) ==
    IF m.thrown THEN m ELSE UninitCopyLoop(m, sp, so, n, dp, do, 0)

RECURSIVE UninitMoveLoop(_, _, _, _, _, _, _)
UninitMoveLoop(m, sp, so, n, dp, do, i) ==
    IF i >= n THEN m
    ELSE LET m1 == MoveConstruct(m, dp, do + i, sp, so + i)
         IN IF m1.thrown THEN DestroyN(m1, dp, do, i)
            ELSE UninitMoveLoop(m1, sp, so, n, dp, do, i + 1)

\* std::uninitialized_move_n(sp + so, n, dp + do)
UninitMoveN(m, sp, so, n, dp, do) ==
    IF m.thrown THEN m ELSE UninitMoveLoop(m, sp, so, n, dp, do, 0)

RECURSIVE CopyLoop(_, _, _, _, _, _, _)
CopyLoop(m, sp, so, n, dp, do, i) ==
    IF i >= n \/ m.thrown THEN m
    ELSE CopyLoop(CopyAssignElem(m, dp, do + i, sp, so + i), sp, so, n, dp, do, i + 1)

\* std::copy_n(sp + so, n, dp + do): element assignment, front to back
CopyN(m, sp, so, n, dp, do) == CopyLoop(m, sp, so, n, dp, do, 0)

RECURSIVE MoveBackwardLoop(_, _, _, _, _)
MoveBackwardLoop(m, p, first, i, dlast) ==
    IF i <= first \/ m.thrown THEN m
    ELSE MoveBackwardLoop(MoveAssignElem(m, p, dlast - 1, p, i - 1), p, first, i - 1, dlast - 1)

\* std::move_backward(p + first, p + lst, p + dlast): back to front
MoveBackward(m, p, first, lst, dlast) == MoveBackwardLoop(m, p, first, lst, dlast)

RECURSIVE MoveLoop(_, _, _, _, _)
MoveLoop(m, p, i, lst, d) ==
    IF i >= lst \/ m.thrown THEN m
    ELSE MoveLoop(MoveAssignElem(m, p, d, p, i), p, i + 1, lst, d + 1)

\* std::move(p + first, p + lst, p + d): front to back
MoveRange(m, p, first, lst, d) == MoveLoop(m, p, first, lst, d)

\* the transfer of Reserve, EmplaceBack, PushBack and Emplace: move or copy
Relocate(m, sp, so, n, dp, do) ==
    IF UseMove THEN UninitMoveN(m, sp, so, n, dp, do)
    ELSE UninitCopyN(m, sp, so, n, dp, do)

\* ------------------------------------------------------------------ RawMemory members
\* RawMemory(RawMemory &&other): std::exchange of both fields
RawMoveCtorNew(other) == [buffer_ |-> other.buffer_, capacity_ |-> other.capacity_]

RawMoveCtorOther(other) == [buffer_ |-> Null, capacity_ |-> 0]

\* void Swap(RawMemory &other): what *this holds afterwards
RawSwapThis(this, other) == [buffer_ |-> other.buffer_, capacity_ |-> other.capacity_]

\* void Swap(RawMemory &other): what other holds afterwards
RawSwapOther(this, other) == [buffer_ |-> this.buffer_, capacity_ |-> this.capacity_]

\* ~RawMemory() of the local new_data at the end of its scope
DropNewData(m) == [Deallocate(m, m.new_data.buffer_) EXCEPT !.new_data = EmptyRaw]

\* ------------------------------------------------------------------ RawMemory objects
DeadRaw == [buffer_ |-> Null, capacity_ |-> 0, alive |-> FALSE]

Fields(d) == [buffer_ |-> d.buffer_, capacity_ |-> d.capacity_]

Object(d) == [buffer_ |-> d.buffer_, capacity_ |-> d.capacity_, alive |-> TRUE]

\* RawMemory() = default
RawDefaultCtor(m, r) == [m EXCEPT !.raw[r] = Object(EmptyRaw)]

\* explicit RawMemory(size_t capacity)
RawSizeCtor(m, r, capacity) ==
    LET m1 == RawMemoryCtor(m, capacity)
    IN IF m1.thrown THEN m1
       ELSE [m1 EXCEPT !.raw[r] = Object(m1.new_data), !.new_data = EmptyRaw]

\* RawMemory(RawMemory &&other) noexcept
RawMoveCtor(m, r, other) ==
    [m EXCEPT !.raw[r] = Object(RawMoveCtorNew(m.raw[other])),
              !.raw[other] = Object(RawMoveCtorOther(m.raw[other]))]

\* void Swap(RawMemory &other) noexcept
RawSwap(m, r, other) ==
    [m EXCEPT !.raw[r] = Object(RawSwapThis(m.raw[r], m.raw[other])),
              !.raw[other] = Object(RawSwapOther(m.raw[r], m.raw[other]))]

\* RawMemory &operator=(RawMemory &&rhs) noexcept: Swap(rhs), then
\* Deallocate(rhs.buffer_) and rhs.capacity_ = 0; rhs.buffer_ keeps its value
RawMoveAssign(m, r, rhs) ==
    IF r = rhs THEN At(m, "self")
    ELSE LET m1 == RawSwap(At(m, "swap"), r, rhs)
             m2 == Deallocate(m1, m1.raw[rhs].buffer_)
         IN [m2 EXCEPT !.raw[rhs].capacity_ = 0]

\* ~RawMemory()
RawDtor(m, r) == [Deallocate(m, m.raw[r].buffer_) EXCEPT !.raw[r] = DeadRaw]

\* ------------------------------------------------------------------ Vector members
DeadVec == [data_ |-> EmptyRaw, size_ |-> 0, alive |-> FALSE]

Buf(m, v) == m.vec[v].data_.buffer_

Cap(m, v) == m.vec[v].data_.capacity_

Size(m, v) == m.vec[v].size_

\* ~Vector(): destroy_n(data_, size_), then ~RawMemory of data_
VectorDtor(m, v) ==
    LET m1 == DestroyN(m, Buf(m, v), 0, Size(m, v))
        m2 == Deallocate(m1, Buf(m, v))
    IN [m2 EXCEPT !.vec[v] = DeadVec]

\* Vector() = default
VectorDefaultCtor(m, v) == [m EXCEPT !.vec[v] = [data_ |-> EmptyRaw, size_ |-> 0, alive |-> TRUE]]

\* explicit Vector(size_t size); when the body throws, data_ is released and
\* the object never exists
VectorSizeCtor(m, v, size) ==
    LET m1 == RawMemoryCtor(m, size)
        p == m1.new_data.buffer_
        m2 == UninitValueConstructN(m1, p, 0, size)
    IN IF m1.thrown THEN m1
       ELSE IF m2.thrown THEN DropNewData(m2)
       ELSE [m2 EXCEPT !.vec[v] = [data_ |-> m1.new_data, size_ |-> size, alive |-> TRUE],
                       !.new_data = EmptyRaw]

\* a copy constructor that takes the buffer of other instead of copying it
VectorCopyCtorShallow(m, v, other) ==
    [m EXCEPT !.vec[v] = [data_ |-> m.vec[other].data_, size_ |-> Size(m, other),
                          alive |-> TRUE]]

\* Vector(const Vector &other)
VectorCopyCtor(m, v, other) ==
    LET n == Size(m, other)
        m1 == RawMemoryCtor(m, n)
        p == m1.new_data.buffer_
        m2 == UninitCopyN(m1, Buf(m, other), 0, n, p, 0)
    IN IF m1.thrown THEN m1
       ELSE IF m2.thrown THEN DropNewData(m2)
       ELSE [m2 EXCEPT !.vec[v] = [data_ |-> m1.new_data, size_ |-> n, alive |-> TRUE],
                       !.new_data = EmptyRaw]

\* Vector(Vector &&other) noexcept
VectorMoveCtor(m, v, other) ==
    [m EXCEPT !.vec[v] = [data_ |-> RawMoveCtorNew(m.vec[other].data_),
                          size_ |-> m.vec[other].size_, alive |-> TRUE],
              !.vec[other] = [data_ |-> RawMoveCtorOther(m.vec[other].data_),
                              size_ |-> 0, alive |-> TRUE]]

\* void Swap(Vector &other) noexcept
VectorSwap(m, v, other) ==
    [m EXCEPT !.vec[v] = [data_ |-> RawSwapThis(m.vec[v].data_, m.vec[other].data_),
                          size_ |-> m.vec[other].size_, alive |-> m.vec[v].alive],
              !.vec[other] = [data_ |-> RawSwapOther(m.vec[v].data_, m.vec[other].data_),
                              size_ |-> m.vec[v].size_, alive |-> m.vec[other].alive]]

\* a move assignment without the test this == &rhs
VectorMoveAssignNoSelfTest(m, v, rhs) ==
    [At(m, "swap") EXCEPT !.vec[v] = [data_ |-> RawSwapThis(m.vec[v].data_, m.vec[rhs].data_),
                                      size_ |-> m.vec[rhs].size_, alive |-> TRUE],
                          !.vec[rhs] = [data_ |-> RawSwapOther(m.vec[v].data_, m.vec[rhs].data_),
                                        size_ |-> 0, alive |-> TRUE]]

\* Vector &operator=(Vector &&rhs) noexcept
VectorMoveAssign(m, v, rhs) ==
    IF v = rhs THEN At(m, "self")
    ELSE [At(m, "swap") EXCEPT !.vec[v] = [data_ |-> RawSwapThis(m.vec[v].data_, m.vec[rhs].data_),
                               size_ |-> m.vec[rhs].size_, alive |-> TRUE],
                   !.vec[rhs] = [data_ |-> RawSwapOther(m.vec[v].data_, m.vec[rhs].data_),
                                 size_ |-> 0, alive |-> TRUE]]

SetSize(m, v, n) == IF m.thrown THEN m ELSE [m EXCEPT !.vec[v].size_ = n]

\* an assignment in place that destroys the receiver's elements before it
\* copy-constructs those of rhs
CopyAssignInPlaceDestroyFirst(m, v, rhs) ==
    LET rs == Size(m, rhs)
        sz == Size(m, v)
        m1 == DestroyN(At(m, IF rs >= sz THEN "grow" ELSE "shrink"), Buf(m, v), 0, sz)
        m2 == UninitCopyN(m1, Buf(m, rhs), 0, rs, Buf(m, v), 0)
    IN SetSize(m2, v, rs)

\* Vector &operator=(const Vector &rhs), the branch rhs.size_ <= data_.Capacity()
CopyAssignInPlace(m, v, rhs) ==
    LET rs == Size(m, rhs)
        sz == Size(m, v)
        sp == Buf(m, rhs)
        dp == Buf(m, v)
    IN IF rs >= sz
       THEN LET m1 == CopyN(At(m, "grow"), sp, 0, sz, dp, 0)
                m2 == UninitCopyN(m1, sp, sz, rs - sz, dp, sz)
            IN SetSize(m2, v, rs)
       ELSE LET m1 == CopyN(At(m, "shrink"), sp, 0, rs, dp, 0)
                m2 == IF m1.thrown THEN m1 ELSE DestroyN(m1, dp, rs, sz - rs)
            IN SetSize(m2, v, rs)

\* Vector &operator=(const Vector &rhs); rhs_copy is the vector Tmp
VectorCopyAssign(m, v, rhs) ==
    IF v = rhs THEN At(m, "self")
    ELSE IF Size(m, rhs) > Cap(m, v)
    THEN LET m1 == VectorCopyCtor(At(m, "realloc"), Tmp, rhs)
         IN IF m1.thrown THEN m1
            ELSE VectorDtor(VectorSwap(m1, v, Tmp), Tmp)
    ELSE CopyAssignInPlace(m, v, rhs)

\* Vector &operator=(const Vector &rhs) as src/unnamed/part_000 defines it:
\* with rhs.size_ <= data_.Capacity() it runs uninitialized_copy_n over the
\* slots of the receiver from slot 0 on
VectorCopyAssignPart000(m, v, rhs) ==
    LET rs == Size(m, rhs)
        sz == Size(m, v)
        sp == Buf(m, rhs)
        dp == Buf(m, v)
    IN IF v = rhs THEN At(m, "self")
       ELSE IF rs > Cap(m, v)
       THEN LET m1 == VectorCopyCtor(At(m, "realloc"), Tmp, rhs)
            IN IF m1.thrown THEN m1
               ELSE VectorDtor(VectorSwap(m1, v, Tmp), Tmp)
       ELSE IF rs < sz
       THEN LET m1 == UninitCopyN(At(m, "shrink"), sp, 0, rs, dp, 0)
                m2 == IF m1.thrown THEN m1 ELSE DestroyN(m1, dp, rs, sz - rs)
            IN SetSize(m2, v, rs)
       ELSE SetSize(UninitCopyN(At(m, "grow"), sp, 0, rs, dp, 0), v, rs)

\* data_.Swap(new_data)
SwapNewData(m, v) ==
    IF m.thrown THEN m
    ELSE [m EXCEPT !.vec[v].data_ = RawSwapThis(m.vec[v].data_, m.new_data),
                   !.new_data = RawSwapOther(m.vec[v].data_, m.new_data)]

\* a Reserve that destroys the elements before it allocates the new block
VectorReserveDestroysFirst(m, v, new_capacity) ==
    IF m.thrown \/ new_capacity <= Cap(m, v) THEN m
    ELSE LET m0 == DestroyN(At(m, "realloc"), Buf(m, v), 0, Size(m, v))
             m1 == RawMemoryCtor(m0, new_capacity)
             m2 == UninitValueConstructN(m1, m1.new_data.buffer_, 0, Size(m, v))
         IN DropNewData(SwapNewData(m2, v))

\* a Reserve that grows to at least twice the capacity
VectorReserveDoubling(m, v, new_capacity) ==
    IF m.thrown \/ new_capacity <= Cap(m, v) THEN m
    ELSE LET n == IF new_capacity < 2 * Cap(m, v) THEN 2 * Cap(m, v) ELSE new_capacity
             m1 == RawMemoryCtor(At(m, "realloc"), n)
             m2 == Relocate(m1, Buf(m, v), 0, Size(m, v), m1.new_data.buffer_, 0)
             m3 == IF m2.thrown THEN m2 ELSE DestroyN(m2, Buf(m, v), 0, Size(m, v))
         IN DropNewData(SwapNewData(m3, v))

\* void Reserve(size_t new_capacity)
VectorReserve(m, v, new_capacity) ==
    IF m.thrown \/ new_capacity <= Cap(m, v) THEN m
    ELSE LET m1 == RawMemoryCtor(At(m, "realloc"), new_capacity)
             m2 == Relocate(m1, Buf(m, v), 0, Size(m, v), m1.new_data.buffer_, 0)
             m3 == IF m2.thrown THEN m2 ELSE DestroyN(m2, Buf(m, v), 0, Size(m, v))
         IN DropNewData(SwapNewData(m3, v))

\* a Resize that shortens the vector at its front
VectorResizeDropsFront(m, v, new_size) ==
    LET sz == Size(m, v)
    IN IF new_size = sz THEN At(m, "same")
       ELSE IF new_size < sz
       THEN SetSize(DestroyN(At(m, "shrink"), Buf(m, v), 0, sz - new_size), v, new_size)
       ELSE LET m1 == VectorReserve(m, v, new_size)
                m2 == UninitValueConstructN(m1, Buf(m1, v), sz, new_size - sz)
            IN SetSize(m2, v, new_size)

\* void Resize(size_t new_size)
VectorResize(m, v, new_size) ==
    LET sz == Size(m, v)
    IN IF new_size = sz THEN At(m, "same")
       ELSE IF new_size < sz
       THEN SetSize(DestroyN(At(m, "shrink"), Buf(m, v), new_size, sz - new_size), v, new_size)
       ELSE LET m1 == VectorReserve(m, v, new_size)
                m2 == UninitValueConstructN(m1, Buf(m1, v), sz, new_size - sz)
            IN SetSize(m2, v, new_size)

\* a growth by one slot
GrowCapByOne(size) == size + 1

GrowCap(size) == IF size = 0 THEN 1 ELSE 2 * size

\* the argument of EmplaceBack/PushBack/Emplace/Insert: a value of the caller
\* (ext) or a reference to slot i of block p
ArgVal(m, arg) == IF arg.ext THEN arg.x ELSE Read(m, arg.p, arg.i)

\* new (p + i) T(std::forward<Args>(args)...)
ConstructFrom(m, p, i, arg) == ConstructArg(m, p, i, ArgVal(m, arg))

\* an EmplaceBack whose growth path puts the new element first and the
\* relocated ones after it
VectorEmplaceBackAtFront(m, v, arg) ==
    LET sz == Size(m, v)
        old == Buf(m, v)
    IN IF sz = Cap(m, v)
       THEN LET m1 == RawMemoryCtor(At(m, "realloc"), GrowCap(sz))
                nb == m1.new_data.buffer_
                m2 == ConstructFrom(m1, nb, 0, arg)
                m3 == Relocate(m2, old, 0, sz, nb, 1)
                m4 == IF m3.thrown THEN m3 ELSE DestroyN(m3, old, 0, sz)
                m5 == DropNewData(SwapNewData(m4, v))
            IN SetSize(m5, v, sz + 1)
       ELSE SetSize(ConstructFrom(At(m, "spare"), old, sz, arg), v, sz + 1)

\* T &EmplaceBack(Args &&...args)
VectorEmplaceBack(m, v, arg) ==
    LET sz == Size(m, v)
        old == Buf(m, v)
    IN IF sz = Cap(m, v)
       THEN LET m1 == RawMemoryCtor(At(m, "realloc"), GrowCap(sz))
                nb == m1.new_data.buffer_
                m2 == ConstructFrom(m1, nb, sz, arg)
                m3 == Relocate(m2, old, 0, sz, nb, 0)
                m4 == IF m3.thrown THEN m3 ELSE DestroyN(m3, old, 0, sz)
                m5 == DropNewData(SwapNewData(m4, v))
            IN SetSize(m5, v, sz + 1)
       ELSE SetSize(ConstructFrom(At(m, "spare"), old, sz, arg), v, sz + 1)

\* a PushBack that increments size_ before it places the new element
VectorPushBackCountsFirst(m, v, arg) ==
    LET sz == Size(m, v)
        old == Buf(m, v)
        m0 == [m EXCEPT !.vec[v].size_ = sz + 1]
    IN IF sz = Cap(m, v)
       THEN LET m1 == RawMemoryCtor(At(m, "realloc"), GrowCap(sz))
                nb == m1.new_data.buffer_
                m2 == ConstructFrom(m1, nb, sz, arg)
                m3 == Relocate(m2, old, 0, sz, nb, 0)
                m4 == IF m3.thrown THEN m3 ELSE DestroyN(m3, old, 0, sz)
                m5 == DropNewData(SwapNewData(m4, v))
            IN SetSize(m5, v, sz + 1)
       ELSE ConstructFrom(At(m0, "spare"), old, sz, arg)

\* void PushBack(const T &value) and void PushBack(T &&value)
VectorPushBack(m, v, arg) ==
    LET sz == Size(m, v)
        old == Buf(m, v)
    IN IF sz = Cap(m, v)
       THEN LET m1 == RawMemoryCtor(At(m, "realloc"), GrowCap(sz))
                nb == m1.new_data.buffer_
                m2 == ConstructFrom(m1, nb, sz, arg)
                m3 == Relocate(m2, old, 0, sz, nb, 0)
                m4 == IF m3.thrown THEN m3 ELSE DestroyN(m3, old, 0, sz)
                m5 == DropNewData(SwapNewData(m4, v))
            IN SetSize(m5, v, sz + 1)
       ELSE SetSize(ConstructFrom(At(m, "spare"), old, sz, arg), v, sz + 1)

\* void PopBack()
VectorPopBack(m, v) ==
    SetSize(DestroyAt(m, Buf(m, v), Size(m, v) - 1), v, Size(m, v) - 1)

\* return begin() + index: the iterator a call returns points into the
\* buffer the vector has when the call returns
ReturnPos(m, v, index) ==
    IF m.thrown THEN m ELSE [m EXCEPT !.pos = [p |-> Buf(m, v), i |-> index]]

\* an Erase that shifts the elements and does not destroy the last one
VectorEraseKeepsLast(m, v, index) ==
    LET sz == Size(m, v)
        p == Buf(m, v)
        m1 == MoveRange(m, p, index + 1, sz, index)
        m3 == SetSize(m1, v, sz - 1)
    IN IF m3.thrown THEN m3 ELSE [m3 EXCEPT !.pos = [p |-> Buf(m3, v), i |-> index]]

\* iterator Erase(const_iterator pos)
VectorErase(m, v, index) ==
    LET sz == Size(m, v)
        p == Buf(m, v)
        m1 == MoveRange(m, p, index + 1, sz, index)
        m2 == IF m1.thrown THEN m1 ELSE DestroyAt(m1, p, sz - 1)
    IN ReturnPos(SetSize(m2, v, sz - 1), v, index)

Catch(m) == [m EXCEPT !.thrown = FALSE]

\* iterator Emplace(const_iterator pos, Args&&... args), size_ == data_.Capacity():
\* each relocation sits in its own try block whose handler destroys the
\* source sub-range and does not rethrow
EmplaceGrow(m, v, index, arg) ==
    LET sz == Size(m, v)
        old == Buf(m, v)
        index_to_end == sz - index
        m1 == RawMemoryCtor(At(m, "realloc"), GrowCap(sz))
        nb == m1.new_data.buffer_
        m2 == ConstructFrom(m1, nb, index, arg)
        m3 == Relocate(m2, old, 0, index, nb, 0)
        m4 == IF m3.thrown THEN DestroyN(At(Catch(m3), "caught-before"), old, 0, index) ELSE m3
        m5 == Relocate(m4, old, index, index_to_end, nb, index + 1)
        m6 == IF m5.thrown
              THEN DestroyN(At(Catch(m5), "caught-after"), old, index, index_to_end)
              ELSE m5
        m7 == DestroyN(m6, old, 0, sz)
    IN IF m2.thrown THEN DropNewData(m2) ELSE DropNewData(SwapNewData(m7, v))

\* data_[index] = T(std::forward<Args>(args)...): a temporary is constructed,
\* then move-assigned
AssignFromTemp(m, p, i, arg) ==
    IF m.thrown THEN m
    ELSE IF Fails(m, TRUE) THEN Throw(m, "elem")
    ELSE LET m1 == Tick(m, TRUE)
         IN IF Fails(m1, TRUE) THEN Throw(m1, "elem")
            ELSE Store(Tick(m1, TRUE), p, i, ArgVal(m, arg))

\* an Emplace into spare capacity that moves the last element up and leaves
\* the ones between index and it where they are
EmplaceInPlaceNoShift(m, v, index, arg) ==
    LET sz == Size(m, v)
        p == Buf(m, v)
    IN IF sz # index
       THEN AssignFromTemp(MoveConstruct(At(m, "shift"), p, sz, p, sz - 1), p, index, arg)
       ELSE ConstructFrom(At(m, "spare"), p, index, arg)

\* iterator Emplace(const_iterator pos, Args&&... args), spare capacity
EmplaceInPlace(m, v, index, arg) ==
    LET sz == Size(m, v)
        p == Buf(m, v)
    IN IF sz # index
       THEN LET m1 == MoveConstruct(At(m, "shift"), p, sz, p, sz - 1)
                m2 == MoveBackward(m1, p, index, sz - 1, sz)
            IN AssignFromTemp(m2, p, index, arg)
       ELSE ConstructFrom(At(m, "spare"), p, index, arg)

\* an Emplace that returns pos, an iterator into the buffer it was called with
VectorEmplaceReturnsPos(m, v, index, arg) ==
    LET m1 == IF Size(m, v) = Cap(m, v) THEN EmplaceGrow(m, v, index, arg)
              ELSE EmplaceInPlace(m, v, index, arg)
        m2 == SetSize(m1, v, Size(m, v) + 1)
    IN IF m2.thrown THEN m2 ELSE [m2 EXCEPT !.pos = [p |-> Buf(m, v), i |-> index]]

\* iterator Emplace(const_iterator pos, Args&&... args); Insert forwards to it
VectorEmplace(m, v, index, arg) ==
    LET m1 == IF Size(m, v) = Cap(m, v) THEN EmplaceGrow(m, v, index, arg)
              ELSE EmplaceInPlace(m, v, index, arg)
    IN ReturnPos(SetSize(m1, v, Size(m, v) + 1), v, index)

\* iterator Insert(const_iterator pos, const T& value) and Insert(const_iterator pos, T&& value)
VectorInsert(m, v, index, value) == VectorEmplace(m, v, index, value)

\* ------------------------------------------------------------------ state machine
NoFault == [f |-> 0, af |-> FALSE]

\* no fault, the f-th of at most n fallible element operations, or the
\* allocation; a behaviour with faults = FALSE has no failing call
Faults(n) ==
    IF faults THEN {[f |-> f, af |-> FALSE] : f \in 0..n} \cup {[f |-> 0, af |-> TRUE]}
    ELSE {NoFault}

Ext(x) == [ext |-> TRUE, x |-> x, p |-> Null, i |-> 0]

\* an argument that is a reference to slot i of block p
Ref(p, i) == [ext |-> FALSE, x |-> DefaultVal, p |-> p, i |-> i]

\* hist[v], what the caller knows of v.  pure: v was default-constructed and
\* since then only appended to, without a failing call; then seq holds the
\* appended values, reallocs the number of appends that took the growth path
\* and relocs the number of elements they relocated.  stage = "inserted": the
\* last call on v was an Insert/Emplace at index that did not fail, and before
\* holds the elements v had when it was called; stage = "erased": that call
\* was followed at once by an Erase at the same index that did not fail.
NotPure ==
    [pure |-> FALSE, seq |-> <<>>, reallocs |-> 0, relocs |-> 0,
     stage |-> "none", index |-> 0, before |-> <<>>]

Fresh == [NotPure EXCEPT !.pure = TRUE]

NoOp == [op |-> "none", path |-> "", failed |-> "none", threw |-> FALSE]

Empty ==
    /\ heap = [p \in Blocks |-> FreeBlock]
    /\ vec = [v \in Vecs \cup {Tmp} |-> DeadVec]
    /\ raw = [r \in Raws |-> DeadRaw]
    /\ err = NoErr
    /\ kind \in Kinds
    /\ faults \in BOOLEAN
    /\ hist = [v \in Vecs |-> NotPure]
    /\ last = NoOp

Init == Empty /\ objs = {1}

InitPair == Empty /\ objs = {1, 2}

\* the iterator a call returns: slot i of block p
NoPos == [p |-> Null, i |-> 0]

\* The state a call starts in.  ctors, assigns and dtors count the element
\* constructions, assignments and destructions the call has made.
Start(ft) ==
    [heap |-> heap, vec |-> vec, raw |-> raw, err |-> err, fc |-> ft.f, af |-> ft.af,
     g |-> DefaultVal, thrown |-> FALSE, failed |-> "none", stuck |-> FALSE, ret |-> 0,
     path |-> "", new_data |-> EmptyRaw, pos |-> NoPos, ctors |-> 0, assigns |-> 0,
     dtors |-> 0]

\* A behaviour is followed up to the first memory error (a destructor or an
\* access on a slot without an element, an element lost without its
\* destructor, a second operator delete of a block).
Defined == err = NoErr

\* Addresses are only compared for equality: heaps are kept up to a renaming
\* of the blocks, the block of vector 1 first, then the block of vector 2.
Swp(a, b) == [p \in Blocks \cup {Null} |-> IF p = a THEN b ELSE IF p = b THEN a ELSE p]

Renaming(vs) ==
    LET b1 == vs[1].data_.buffer_
        s1 == IF b1 # Null THEN Swp(b1, 1) ELSE Swp(1, 1)
        b2 == s1[vs[2].data_.buffer_]
        s2 == IF b2 # Null /\ b2 # 1 THEN Swp(b2, 2) ELSE Swp(1, 1)
    IN [p \in Blocks \cup {Null} |-> s2[s1[p]]]

Inverse(f, q) == CHOOSE p \in Blocks : f[p] = q

RenameRaw(f, d) == [d EXCEPT !.buffer_ = f[@]]

\* The step of a call whose body ends in r.  The inputs f (which fallible
\* element operation throws) and af (the allocation throws) name a fault that
\* the call reaches.
Commit(r, op) ==
    LET f == Renaming(r.vec)
    IN /\ Defined
       /\ ~r.stuck
       /\ r.fc = 0 /\ ~r.af
       /\ heap' = [q \in Blocks |-> r.heap[Inverse(f, q)]]
       /\ vec' = [u \in DOMAIN r.vec |-> [r.vec[u] EXCEPT !.data_ = RenameRaw(f, @)]]
       /\ raw' = r.raw
       /\ err' = r.err
       /\ last' = [op |-> op, path |-> r.path, failed |-> r.failed, threw |-> r.thrown]
       /\ UNCHANGED <<kind, objs, faults>>

Alive(v) == vec[v].alive

Taint(S) == hist' = [u \in Vecs |-> IF u \in S THEN NotPure ELSE hist[u]]

Appended(r, v, x) ==
    hist' = [hist EXCEPT ![v] =
                IF hist[v].pure /\ r.failed = "none"
                THEN [Fresh EXCEPT !.seq = Append(hist[v].seq, x),
                                   !.reallocs = hist[v].reallocs
                                                + (IF r.path = "realloc" THEN 1 ELSE 0),
                                   !.relocs = hist[v].relocs
                                              + (IF r.path = "realloc" THEN r.ctors - 1 ELSE 0)]
                ELSE NotPure]

Inserted(v, index) ==
    hist' = [hist EXCEPT ![v] =
                IF last'.failed = "none"
                THEN [NotPure EXCEPT !.stage = "inserted", !.index = index,
                                     !.before = [i \in 1..vec[v].size_ |->
                                                    heap[vec[v].data_.buffer_].slots[i]]]
                ELSE NotPure]

Erased(v, index) ==
    hist' = [hist EXCEPT ![v] =
                IF last'.failed = "none" /\ hist[v].stage = "inserted" /\ hist[v].index = index
                THEN [hist[v] EXCEPT !.stage = "erased"]
                ELSE NotPure]

\* the longest vector of a behaviour: MaxLen with one vector, PairLen with
\* two, AppendLen where vector 2 alone is appended to
Limit == IF objs = {1} THEN MaxLen ELSE IF objs = {2} THEN AppendLen ELSE PairLen

CanAppend(v) == vec[v].size_ < Limit

DefaultConstructAt(v) ==
    /\ ~Alive(v)
    /\ Commit(VectorDefaultCtor(Start(NoFault), v), "DefaultConstruct")
    /\ hist' = [hist EXCEPT ![v] = Fresh]

SizeConstructAt(v, n, ft) ==
    /\ ~Alive(v)
    /\ Commit(VectorSizeCtor(Start(ft), v, n), "SizeConstruct")
    /\ Taint({v})

CopyConstructAt(v, o, ft) ==
    /\ Copyable
    /\ ~Alive(v) /\ Alive(o)
    /\ Commit(VectorCopyCtor(Start(ft), v, o), "CopyConstruct")
    /\ Taint({v})

MoveConstructAt(v, o) ==
    /\ ~Alive(v) /\ Alive(o)
    /\ Commit(VectorMoveCtor(Start(NoFault), v, o), "MoveConstruct")
    /\ Taint({v, o})

CopyAssignAt(v, rhs, ft) ==
    /\ Copyable
    /\ Alive(v) /\ Alive(rhs)
    /\ Commit(VectorCopyAssign(Start(ft), v, rhs), "CopyAssign")
    /\ Taint({v})

CopyAssignPart000At(v, rhs, ft) ==
    /\ Copyable
    /\ Alive(v) /\ Alive(rhs)
    /\ Commit(VectorCopyAssignPart000(Start(ft), v, rhs), "CopyAssignPart000")
    /\ Taint({v})

MoveAssignAt(v, rhs) ==
    /\ Alive(v) /\ Alive(rhs)
    /\ Commit(VectorMoveAssign(Start(NoFault), v, rhs), "MoveAssign")
    /\ Taint({v, rhs})

SwapAt(v, o) ==
    /\ Alive(v) /\ Alive(o)
    /\ Commit(VectorSwap(Start(NoFault), v, o), "Swap")
    /\ Taint({v, o})

ReserveAt(v, k, ft) ==
    /\ Alive(v)
    /\ Commit(VectorReserve(Start(ft), v, k), "Reserve")
    /\ Taint({v})

ResizeAt(v, n, ft) ==
    /\ Alive(v)
    /\ Commit(VectorResize(Start(ft), v, n), "Resize")
    /\ Taint({v})

EmplaceBackAt(v, x, ft) ==
    /\ Alive(v) /\ CanAppend(v)
    /\ Commit(VectorEmplaceBack(Start(ft), v, Ext(x)), "EmplaceBack")
    /\ Appended(VectorEmplaceBack(Start(ft), v, Ext(x)), v, x)

PushBackAt(v, x, ft) ==
    /\ Alive(v) /\ CanAppend(v)
    /\ Commit(VectorPushBack(Start(ft), v, Ext(x)), "PushBack")
    /\ Appended(VectorPushBack(Start(ft), v, Ext(x)), v, x)

EmplaceAt(v, index, x, ft) ==
    /\ Alive(v) /\ CanAppend(v)
    /\ index <= vec[v].size_
    /\ Commit(VectorEmplace(Start(ft), v, index, Ext(x)), "Emplace")
    /\ Inserted(v, index)

InsertAt(v, index, x, ft) ==
    /\ Alive(v) /\ CanAppend(v)
    /\ index <= vec[v].size_
    /\ Commit(VectorInsert(Start(ft), v, index, Ext(x)), "Insert")
    /\ Inserted(v, index)

\* v.Insert(v.begin() + index, v[j])
InsertElementAt(v, index, j, ft) ==
    /\ Alive(v) /\ CanAppend(v)
    /\ index <= vec[v].size_
    /\ j < vec[v].size_
    /\ Commit(VectorInsert(Start(ft), v, index, Ref(vec[v].data_.buffer_, j)), "InsertElement")
    /\ Taint({v})

EraseAt(v, index, ft) ==
    /\ Alive(v)
    /\ index < vec[v].size_
    /\ Commit(VectorErase(Start(ft), v, index), "Erase")
    /\ Erased(v, index)

PopBackAt(v) ==
    /\ Alive(v) /\ vec[v].size_ > 0
    /\ Commit(VectorPopBack(Start(NoFault), v), "PopBack")
    /\ Taint({v})

DestroyVec(v) ==
    /\ Alive(v)
    /\ Commit(VectorDtor(Start(NoFault), v), "Destroy")
    /\ Taint({v})

DefaultConstruct == \E v \in objs : DefaultConstructAt(v)

SizeConstruct == \E v \in objs, n \in 0..Limit : \E ft \in Faults(n) : SizeConstructAt(v, n, ft)

CopyConstructVec ==
    \E v \in objs, o \in objs : \E ft \in Faults(vec[o].size_) : CopyConstructAt(v, o, ft)

MoveConstructVec == \E v \in objs, o \in objs : MoveConstructAt(v, o)

CopyAssign ==
    \E v \in objs, rhs \in objs : \E ft \in Faults(vec[rhs].size_) : CopyAssignAt(v, rhs, ft)

CopyAssignPart000 ==
    \E v \in objs, rhs \in objs :
        \E ft \in Faults(vec[rhs].size_) : CopyAssignPart000At(v, rhs, ft)

MoveAssign == \E v \in objs, rhs \in objs : MoveAssignAt(v, rhs)

Swap == \E v \in objs, o \in objs : SwapAt(v, o)

Reserve == \E v \in objs, k \in 0..(Limit + 1) : \E ft \in Faults(vec[v].size_) : ReserveAt(v, k, ft)

Resize == \E v \in objs, n \in 0..Limit : \E ft \in Faults(n) : ResizeAt(v, n, ft)

EmplaceBack ==
    \E v \in objs, x \in Values : \E ft \in Faults(vec[v].size_ + 1) : EmplaceBackAt(v, x, ft)

PushBack ==
    \E v \in objs, x \in Values : \E ft \in Faults(vec[v].size_ + 1) : PushBackAt(v, x, ft)

Emplace ==
    \E v \in objs, x \in Values :
        \E index \in 0..vec[v].size_, ft \in Faults(vec[v].size_ + 2) :
            EmplaceAt(v, index, x, ft)

Insert ==
    \E v \in objs, x \in Values :
        \E index \in 0..vec[v].size_, ft \in Faults(vec[v].size_ + 2) :
            InsertAt(v, index, x, ft)

InsertElement ==
    \E v \in objs :
        \E index \in 0..vec[v].size_, j \in 0..(vec[v].size_ - 1), ft \in Faults(vec[v].size_ + 2) :
            InsertElementAt(v, index, j, ft)

Erase ==
    \E v \in objs :
        \E index \in 0..(vec[v].size_ - 1), ft \in Faults(vec[v].size_) : EraseAt(v, index, ft)

PopBack == \E v \in objs : PopBackAt(v)

Destroy == \E v \in objs : DestroyVec(v)

\* one vector and every member function that needs no second vector
Next ==
    \/ DefaultConstruct
    \/ SizeConstruct
    \/ CopyAssign
    \/ MoveAssign
    \/ Swap
    \/ Reserve
    \/ Resize
    \/ EmplaceBack
    \/ PushBack
    \/ Emplace
    \/ Insert
    \/ Erase
    \/ PopBack
    \/ Destroy

Spec == Init /\ [][Next]_vars

\* ------------------------------------------------------------------ RawMemory alone
InitRaw == Empty /\ objs = {} /\ kind = "NothrowMove" /\ faults

RawCommit(r, op) ==
    /\ Defined
    /\ ~r.stuck
    /\ r.fc = 0 /\ ~r.af
    /\ heap' = r.heap
    /\ raw' = r.raw
    /\ err' = r.err
    /\ last' = [op |-> op, path |-> r.path, failed |-> r.failed, threw |-> r.thrown]
    /\ UNCHANGED <<vec, kind, objs, faults, hist>>

RawDefaultAt(r) ==
    /\ ~raw[r].alive
    /\ RawCommit(RawDefaultCtor(Start(NoFault), r), "RawDefault")

RawConstructAt(r, n, ft) ==
    /\ ~raw[r].alive
    /\ RawCommit(RawSizeCtor(Start(ft), r, n), "RawConstruct")

RawMoveConstructAt(r, other) ==
    /\ ~raw[r].alive /\ raw[other].alive
    /\ RawCommit(RawMoveCtor(Start(NoFault), r, other), "RawMoveConstruct")

RawMoveAssignAt(r, rhs) ==
    /\ raw[r].alive /\ raw[rhs].alive
    /\ RawCommit(RawMoveAssign(Start(NoFault), r, rhs), "RawMoveAssign")

RawSwapAt(r, other) ==
    /\ raw[r].alive /\ raw[other].alive
    /\ RawCommit(RawSwap(Start(NoFault), r, other), "RawSwap")

RawDestroyAt(r) ==
    /\ raw[r].alive
    /\ RawCommit(RawDtor(Start(NoFault), r), "RawDestroy")

RawDefault == \E r \in Raws : RawDefaultAt(r)

RawConstruct == \E r \in Raws, n \in 0..MaxLen, ft \in Faults(0) : RawConstructAt(r, n, ft)

RawMoveConstruct == \E r \in Raws, other \in Raws : RawMoveConstructAt(r, other)

RawMoveAssignment == \E r \in Raws, rhs \in Raws : RawMoveAssignAt(r, rhs)

RawSwapping == \E r \in Raws, other \in Raws : RawSwapAt(r, other)

RawDestroy == \E r \in Raws : RawDestroyAt(r)

NextRaw ==
    \/ RawDefault
    \/ RawConstruct
    \/ RawMoveConstruct
    \/ RawMoveAssignment
    \/ RawSwapping
    \/ RawDestroy

SpecRaw == InitRaw /\ [][NextRaw]_vars

\* two vectors: the constructors and assignments from another vector, Swap,
\* and the calls that fill, shorten and end a vector
NextPair ==
    \/ DefaultConstruct
    \/ CopyConstructVec
    \/ MoveConstructVec
    \/ CopyAssign
    \/ MoveAssign
    \/ Swap
    \/ EmplaceBack
    \/ PopBack
    \/ Destroy

SpecPair == InitPair /\ [][NextPair]_vars

\* one vector that is default-constructed, appended to and destroyed
InitAppend == Empty /\ objs = {2}

NextAppend ==
    \/ DefaultConstruct
    \/ EmplaceBack
    \/ PushBack
    \/ Destroy

SpecAppend == InitAppend /\ [][NextAppend]_vars

\* two vectors of the class of src/unnamed/part_000, which has the
\* constructors, assignments, Swap, Reserve and destructor only
InitPart000 == Empty /\ objs = {1, 2}

NextPart000 ==
    \/ DefaultConstruct
    \/ SizeConstruct
    \/ CopyConstructVec
    \/ MoveConstructVec
    \/ CopyAssignPart000
    \/ MoveAssign
    \/ Swap
    \/ Reserve
    \/ Destroy

SpecPart000 == InitPart000 /\ [][NextPart000]_vars

\* one vector, filled by appends, into which its own elements are inserted
NextElement ==
    \/ DefaultConstruct
    \/ EmplaceBack
    \/ Reserve
    \/ PopBack
    \/ InsertElement
    \/ Destroy

SpecElement == Init /\ [][NextElement]_vars

\* ------------------------------------------------------------------ observations
\* Size(), Capacity() and the sequence of slots [0, size_) of vector record w in heap h
SizeOf(w) == w.size_

Capacity(w) == w.data_.capacity_

Contents(h, w) == [i \in 1..w.size_ |-> h[w.data_.buffer_].slots[i]]

SlotAt(h, w, i) == h[w.data_.buffer_].slots[i + 1]

\* vector v reads the same before and after the step
Same(v) ==
    /\ SizeOf(vec'[v]) = SizeOf(vec[v])
    /\ Capacity(vec'[v]) = Capacity(vec[v])
    /\ Contents(heap', vec'[v]) = Contents(heap, vec[v])

\* ------------------------------------------------------------------ C1
\* C1: after any sequence of public Vector operations, failing ones included,
\* every slot at an index in [0, size_) holds a constructed element and every
\* slot at an index in [size_, capacity) holds none.
C1_SlotsMatchLength ==
    \A v \in Vecs :
        vec[v].alive =>
            /\ \A i \in 0..(SizeOf(vec[v]) - 1) : SlotAt(heap, vec[v], i) # Raw
            /\ \A i \in SizeOf(vec[v])..(Capacity(vec[v]) - 1) : SlotAt(heap, vec[v], i) = Raw

\* ------------------------------------------------------------------ C2
\* C2: a vector that was default-constructed and then only appended to, with
\* no failing call, has Size() equal to the number of appends and holds the
\* appended values in order, whatever reallocations the appends made.
C2_AppendsInOrder ==
    \A v \in Vecs :
        vec[v].alive /\ hist[v].pure =>
            /\ SizeOf(vec[v]) = Len(hist[v].seq)
            /\ Contents(heap, vec[v]) = hist[v].seq

\* three appends, two different values, the last one after the growth 2 -> 4
C2_Witness ==
    /\ hist[1].pure
    /\ Len(hist[1].seq) = 3
    /\ hist[1].seq[1] # hist[1].seq[2]
    /\ Capacity(vec[1]) = 4
    /\ last.op \in {"EmplaceBack", "PushBack"}

\* ------------------------------------------------------------------ C3
\* C3: after a sequence of non-failing operations and the destruction of every
\* vector, each element ever constructed was destroyed exactly once before
\* its block was freed: no element lost, none destroyed twice, no block left.
C3_DestroyedExactlyOnce ==
    (~faults /\ \A v \in Vecs : ~vec[v].alive) =>
        /\ ~err.leak
        /\ ~err.dblDestroy
        /\ \A p \in Blocks : ~heap[p].live

\* ------------------------------------------------------------------ C4
\* C4: when Emplace/Insert reallocates and the relocation of the sub-range
\* before or after the position fails, no element is destroyed twice.
C4_NoDoubleDestroyOnRelocationFailure ==
    (last.op \in {"Emplace", "Insert"} /\ last.path \in {"caught-before", "caught-after"})
        => ~err.dblDestroy

\* ------------------------------------------------------------------ C5
\* C5: a call in which an element operation failed does not return normally:
\* the failure reaches the caller.
C5_FailurePropagates == last.failed = "elem" => last.threw

\* ------------------------------------------------------------------ C6
C6_Strong(v, rhs) == Same(v) /\ Same(rhs)

\* C6 as stated: a failing copy-assign leaves the receiver and rhs as they
\* were, on every path.
C6_StrongOnEveryPath ==
    [][(last'.op = "CopyAssign" /\ last'.threw) =>
          \A v \in objs, rhs \in objs :
              \A ft \in Faults(vec[rhs].size_) :
                  CopyAssignAt(v, rhs, ft) => C6_Strong(v, rhs)]_vars

C6_Basic(v, rhs) ==
    /\ Same(rhs)
    /\ SizeOf(vec'[v]) = SizeOf(vec[v])
    /\ Capacity(vec'[v]) = Capacity(vec[v])
    /\ last'.path = "realloc" => Same(v)
    /\ \A i \in 0..(SizeOf(vec[v]) - 1) :
          \/ SlotAt(heap', vec'[v], i) = SlotAt(heap, vec[v], i)
          \/ /\ i < SizeOf(vec[rhs])
             /\ SlotAt(heap', vec'[v], i) = SlotAt(heap, vec[rhs], i)

\* C6 amended: a failing copy-assign leaves rhs, the receiver's Size() and its
\* Capacity() as they were; with rhs.size_ > capacity the receiver's elements
\* too; with rhs.size_ <= capacity each element of the receiver is the one
\* it was or already equals the element of rhs at its index.
C6_StrongOnlyWhenReallocating ==
    [][(last'.op = "CopyAssign" /\ last'.threw) =>
          \A v \in objs, rhs \in objs :
              \A ft \in Faults(vec[rhs].size_) :
                  CopyAssignAt(v, rhs, ft) => C6_Basic(v, rhs)]_vars

\* a copy-assign in place that failed after it had overwritten an element
C6_Witness ==
    /\ last.op = "CopyAssign"
    /\ last.failed = "elem"
    /\ last.threw
    /\ last.path \in {"grow", "shrink"}
    /\ SizeOf(vec[1]) = 2
    /\ SizeOf(vec[2]) = 2
    /\ SlotAt(heap, vec[1], 0) = SlotAt(heap, vec[2], 0)
    /\ SlotAt(heap, vec[1], 1) # SlotAt(heap, vec[2], 1)

\* ------------------------------------------------------------------ C7
\* C7: every RawMemory has capacity_ = 0 exactly when buffer_ is null, the
\* source of a move construction or move assignment included.
C7_NullIffNoCapacity ==
    \A r \in Raws : raw[r].alive => (raw[r].capacity_ = 0 <=> raw[r].buffer_ = Null)

\* ------------------------------------------------------------------ C8
C8_Copied(v, src) ==
    /\ SizeOf(vec'[v]) = SizeOf(vec[src])
    /\ Contents(heap', vec'[v]) = Contents(heap, vec[src])
    /\ Same(src)
    /\ v # src /\ vec'[v].data_.buffer_ # Null => vec'[v].data_.buffer_ # vec'[src].data_.buffer_
    /\ \A i \in SizeOf(vec[src])..(SizeOf(vec[v]) - 1) : SlotAt(heap', vec'[v], i) = Raw

\* C8: a copy construction and a copy assignment on each of its paths leave
\* the receiver with the Size() and the elements of the source and the source
\* unchanged, the old elements of a longer receiver past the new size are
\* destroyed, and a later EmplaceBack, PopBack or destruction of one vector
\* leaves the other one unchanged.
C8_CopyIsEqualAndIndependent ==
    [][/\ (last'.op = "CopyConstruct" /\ ~last'.threw) =>
              \A v \in objs, o \in objs :
                  \A ft \in Faults(vec[o].size_) :
                      CopyConstructAt(v, o, ft) => C8_Copied(v, o)
       /\ (last'.op = "CopyAssign" /\ ~last'.threw) =>
              \A v \in objs, rhs \in objs :
                  \A ft \in Faults(vec[rhs].size_) :
                      CopyAssignAt(v, rhs, ft) => C8_Copied(v, rhs)
       /\ last'.op = "EmplaceBack" =>
              \A w \in objs :
                  ~Same(w) =>
                      \A v \in objs \ {w}, x \in Values :
                          \A ft \in Faults(vec[v].size_ + 1) : ~EmplaceBackAt(v, x, ft)
       /\ last'.op = "PopBack" =>
              \A w \in objs : ~Same(w) => \A v \in objs \ {w} : ~PopBackAt(v)
       /\ last'.op = "Destroy" =>
              \A w \in objs : ~Same(w) => \A v \in objs \ {w} : ~DestroyVec(v)]_vars

\* a copy-assign of a shorter source into a longer receiver has succeeded
C8_Witness ==
    /\ last.op = "CopyAssign"
    /\ last.path = "shrink"
    /\ ~last.threw
    /\ \E v \in Vecs : SizeOf(vec[v]) = 1 /\ Capacity(vec[v]) = 2

\* ------------------------------------------------------------------ C9
\* C9: move construction gives the destination the source's Size(),
\* Capacity() and elements and leaves the source with Size() = 0 and
\* Capacity() = 0; a = move(b) gives a the Size() and elements of b and
\* leaves b with Size() = 0; a = move(a) changes neither Size() nor elements.
C9_MoveTransfers ==
    [][/\ last'.op = "MoveConstruct" =>
              \A v \in objs, o \in objs :
                  MoveConstructAt(v, o) =>
                      /\ SizeOf(vec'[v]) = SizeOf(vec[o])
                      /\ Capacity(vec'[v]) = Capacity(vec[o])
                      /\ Contents(heap', vec'[v]) = Contents(heap, vec[o])
                      /\ SizeOf(vec'[o]) = 0
                      /\ Capacity(vec'[o]) = 0
       /\ last'.op = "MoveAssign" =>
              \A v \in objs, rhs \in objs :
                  MoveAssignAt(v, rhs) =>
                      IF v = rhs
                      THEN /\ SizeOf(vec'[v]) = SizeOf(vec[v])
                           /\ Contents(heap', vec'[v]) = Contents(heap, vec[v])
                      ELSE /\ SizeOf(vec'[v]) = SizeOf(vec[rhs])
                           /\ Contents(heap', vec'[v]) = Contents(heap, vec[rhs])
                           /\ SizeOf(vec'[rhs]) = 0]_vars

\* a = move(b) has moved two elements into a
C9_Witness ==
    /\ last.op = "MoveAssign"
    /\ last.path = "swap"
    /\ SizeOf(vec[1]) = 2
    /\ SizeOf(vec[2]) = 0

\* ------------------------------------------------------------------ C10
\* C10: Reserve(k) never decreases Capacity(); with k <= Capacity() nothing
\* changes; with k > Capacity() a Reserve that returns leaves Capacity() = k,
\* Size() unchanged and every element as it was.
C10_Reserve ==
    [][last'.op = "Reserve" =>
          \A v \in objs, k \in 0..(Limit + 1) :
              \A ft \in Faults(vec[v].size_) :
                  ReserveAt(v, k, ft) =>
                      /\ Capacity(vec'[v]) >= Capacity(vec[v])
                      /\ k <= Capacity(vec[v]) => (vec' = vec /\ heap' = heap)
                      /\ (k > Capacity(vec[v]) /\ ~last'.threw) =>
                            /\ Capacity(vec'[v]) = k
                            /\ SizeOf(vec'[v]) = SizeOf(vec[v])
                            /\ Contents(heap', vec'[v]) = Contents(heap, vec[v])]_vars

\* a Reserve has reallocated a vector of two elements
C10_Witness ==
    /\ last.op = "Reserve"
    /\ last.path = "realloc"
    /\ ~last.threw
    /\ SizeOf(vec[1]) = 2
    /\ Capacity(vec[1]) > 2

\* ------------------------------------------------------------------ C11
\* C11: a Resize(n) that does not fail leaves Size() = n; the elements below
\* both the old and the new size are unchanged; growing adds elements equal
\* to T(); shrinking leaves Capacity() unchanged; Resize(Size()) changes
\* nothing.
C11_Resize ==
    [][(last'.op = "Resize" /\ last'.failed = "none") =>
          \A v \in objs, n \in 0..Limit :
              \A ft \in Faults(n) :
                  ResizeAt(v, n, ft) =>
                      /\ SizeOf(vec'[v]) = n
                      /\ \A i \in 0..(Min({SizeOf(vec[v]), n}) - 1) :
                            SlotAt(heap', vec'[v], i) = SlotAt(heap, vec[v], i)
                      /\ \A i \in SizeOf(vec[v])..(n - 1) : SlotAt(heap', vec'[v], i) = DefaultVal
                      /\ n < SizeOf(vec[v]) => Capacity(vec'[v]) = Capacity(vec[v])
                      /\ n = SizeOf(vec[v]) => (vec' = vec /\ heap' = heap)]_vars

\* a Resize has grown a vector that held a value other than T() into a new block
C11_Witness ==
    /\ last.op = "Resize"
    /\ last.path = "realloc"
    /\ last.failed = "none"
    /\ SizeOf(vec[1]) = 3
    /\ SlotAt(heap, vec[1], 0) = 1
    /\ SlotAt(heap, vec[1], 2) = DefaultVal

\* ------------------------------------------------------------------ C12
\* C12: an Insert/Emplace of a value at index i followed at once by an Erase
\* at index i, neither failing, leaves the vector with the Size() and the
\* elements it had before the Insert, with spare capacity and without.
C12_InsertEraseRoundTrip ==
    \A v \in Vecs :
        hist[v].stage = "erased" =>
            /\ SizeOf(vec[v]) = Len(hist[v].before)
            /\ Contents(heap, vec[v]) = hist[v].before

\* an Insert in front of two different elements has been undone by an Erase
C12_Witness ==
    /\ hist[1].stage = "erased"
    /\ hist[1].index = 0
    /\ Len(hist[1].before) = 2
    /\ hist[1].before[1] # hist[1].before[2]
    /\ last.op = "Erase"

\* ------------------------------------------------------------------ C13
C13_Unchanged(v, ft) ==
    (last'.failed = "elem" /\ (ft.f = 1 \/ ~UseMove)) => (last'.threw /\ Same(v))

\* C13: an EmplaceBack/PushBack in which the construction of the new element
\* fails, or in which the relocation of an element by copy fails, throws and
\* leaves Size(), Capacity() and every element of the vector as before.
C13_AppendFailureLeavesVector ==
    [][/\ last'.op = "EmplaceBack" =>
              \A v \in objs, x \in Values :
                  \A ft \in Faults(vec[v].size_ + 1) :
                      EmplaceBackAt(v, x, ft) => C13_Unchanged(v, ft)
       /\ last'.op = "PushBack" =>
              \A v \in objs, x \in Values :
                  \A ft \in Faults(vec[v].size_ + 1) :
                      PushBackAt(v, x, ft) => C13_Unchanged(v, ft)]_vars

\* an append to a full vector of two elements has failed while it copied them
C13_Witness ==
    /\ last.op \in {"EmplaceBack", "PushBack"}
    /\ last.path = "realloc"
    /\ last.failed = "elem"
    /\ last.threw
    /\ kind = "ThrowingMove"
    /\ SizeOf(vec[1]) = 2
    /\ Capacity(vec[1]) = 2

RECURSIVE Pow2From(_, _)
\* the smallest power of two >= n that is a multiple of the power of two p
Pow2From(n, p) == IF p >= n THEN p ELSE Pow2From(n, 2 * p)

RECURSIVE Log2From(_, _)
\* the number of doublings of p that reach n
Log2From(n, p) == IF p >= n THEN 0 ELSE 1 + Log2From(n, 2 * p)

C15_Doubles(v) ==
    (last'.failed = "none" /\ SizeOf(vec[v]) = Capacity(vec[v]))
        => Capacity(vec'[v]) = (IF Capacity(vec[v]) = 0 THEN 1 ELSE 2 * Capacity(vec[v]))

\* C15: an append to a vector with size_ = capacity leaves the capacity
\* max(1, 2 * capacity); after N >= 1 appends to a default-constructed vector
\* there were at most ceil(log2 N) + 1 reallocations, Capacity() is the
\* smallest power of two >= N and fewer than 2N elements were relocated.
C15_AmortizedDoubling ==
    [][/\ last'.op = "EmplaceBack" =>
              \A v \in objs, x \in Values :
                  \A ft \in Faults(vec[v].size_ + 1) :
                      EmplaceBackAt(v, x, ft) => C15_Doubles(v)
       /\ last'.op = "PushBack" =>
              \A v \in objs, x \in Values :
                  \A ft \in Faults(vec[v].size_ + 1) :
                      PushBackAt(v, x, ft) => C15_Doubles(v)
       /\ \A v \in objs :
              (hist'[v].pure /\ Len(hist'[v].seq) >= 1) =>
                  /\ hist'[v].reallocs <= Log2From(Len(hist'[v].seq), 1) + 1
                  /\ Capacity(vec'[v]) = Pow2From(Len(hist'[v].seq), 1)
                  /\ hist'[v].relocs < 2 * Len(hist'[v].seq)]_vars

\* five appends: the growths 0 -> 1 -> 2 -> 4 -> 8 relocated 0 + 1 + 2 + 4 elements
C15_Witness ==
    /\ hist[2].pure
    /\ Len(hist[2].seq) = 5
    /\ Capacity(vec[2]) = 8
    /\ hist[2].reallocs = 4
    /\ hist[2].relocs = 7

\* ------------------------------------------------------------------ C16
C16_Inserted(v, index, x, r) ==
    LET S == Contents(heap, vec[v])
    IN /\ SizeOf(vec'[v]) = Len(S) + 1
       /\ Contents(heap', vec'[v]) =
              [k \in 1..(Len(S) + 1) |->
                  IF k <= index THEN S[k] ELSE IF k = index + 1 THEN x ELSE S[k - 1]]
       /\ r.pos.p = r.vec[v].data_.buffer_
       /\ r.pos.i = index
       /\ r.heap[r.pos.p].slots[r.pos.i + 1] = x
       /\ index = Len(S) =>
              Contents(heap', vec'[v]) =
                  Contents(VectorEmplaceBack(Start(NoFault), v, Ext(x)).heap,
                           VectorEmplaceBack(Start(NoFault), v, Ext(x)).vec[v])

\* C16: an Emplace/Insert of a value x at index i that does not fail leaves
\* the elements before i, then x, then the elements from i on, Size() one
\* larger, and returns the position of index i in the buffer the vector has
\* afterwards, where x is; at i = Size() the elements are those an append
\* leaves.  (hist'[v].index is the index such a call was made with.)
C16_InsertPlacesValue ==
    [][/\ (last'.op = "Emplace" /\ last'.failed = "none") =>
              \A v \in objs, x \in Values :
                  \A index \in {hist'[v].index} \cap 0..vec[v].size_ :
                      \A ft \in Faults(vec[v].size_ + 2) :
                          EmplaceAt(v, index, x, ft) =>
                              C16_Inserted(v, index, x,
                                           VectorEmplace(Start(ft), v, index, Ext(x)))
       /\ (last'.op = "Insert" /\ last'.failed = "none") =>
              \A v \in objs, x \in Values :
                  \A index \in {hist'[v].index} \cap 0..vec[v].size_ :
                      \A ft \in Faults(vec[v].size_ + 2) :
                          InsertAt(v, index, x, ft) =>
                              C16_Inserted(v, index, x,
                                           VectorInsert(Start(ft), v, index, Ext(x)))]_vars

\* an Insert between two elements of a full vector has reallocated it
C16_Witness ==
    /\ last.op = "Insert"
    /\ last.path = "realloc"
    /\ last.failed = "none"
    /\ hist[1].stage = "inserted"
    /\ hist[1].index = 1
    /\ Len(hist[1].before) = 2
    /\ hist[1].before[1] # hist[1].before[2]
    /\ SizeOf(vec[1]) = 3

\* ------------------------------------------------------------------ C17
C17_Erased(v, index, r) ==
    LET S == Contents(heap, vec[v])
    IN /\ SizeOf(vec'[v]) = Len(S) - 1
       /\ Contents(heap', vec'[v]) = [k \in 1..(Len(S) - 1) |-> IF k <= index THEN S[k] ELSE S[k + 1]]
       /\ Capacity(vec'[v]) = Capacity(vec[v])
       /\ r.dtors = 1
       /\ SlotAt(heap', vec'[v], Len(S) - 1) = Raw
       /\ r.pos.p = r.vec[v].data_.buffer_
       /\ r.pos.i = index

\* C17: an Erase at index i < Size() that does not fail leaves the other
\* elements in their order, Size() one smaller and Capacity() unchanged,
\* destroys one element, the one in the former last slot, and returns the
\* position of index i.
C17_EraseRemovesOne ==
    [][(last'.op = "Erase" /\ last'.failed = "none") =>
          \A v \in objs :
              \A index \in 0..(vec[v].size_ - 1), ft \in Faults(vec[v].size_) :
                  EraseAt(v, index, ft) =>
                      C17_Erased(v, index, VectorErase(Start(ft), v, index))]_vars

\* the first of three elements, the last two different, has been erased
C17_Witness ==
    /\ last.op = "Erase"
    /\ last.failed = "none"
    /\ SizeOf(vec[1]) = 2
    /\ Capacity(vec[1]) = 3
    /\ SlotAt(heap, vec[1], 0) # SlotAt(heap, vec[1], 1)
    /\ SlotAt(heap, vec[1], 2) = Raw

\* ------------------------------------------------------------------ C18
Max(S) == CHOOSE x \in S : \A y \in S : x >= y

C18_InPlace(v, rhs, r) ==
    (v # rhs /\ SizeOf(vec[rhs]) <= Capacity(vec[v])) =>
        /\ r.assigns = Min({SizeOf(vec[v]), SizeOf(vec[rhs])})
        /\ r.ctors = Max({0, SizeOf(vec[rhs]) - SizeOf(vec[v])})
        /\ r.dtors = Max({0, SizeOf(vec[v]) - SizeOf(vec[rhs])})
        /\ SizeOf(vec'[v]) = SizeOf(vec[rhs])

\* C18: a copy-assign from another vector with rhs.size_ <= capacity that does
\* not fail assigns to the min(size_, rhs.size_) slots that hold elements and
\* constructs nothing over them, copy-constructs max(0, rhs.size_ - size_)
\* elements, destroys max(0, size_ - rhs.size_) and leaves size_ = rhs.size_;
\* in src/vector.h and in src/unnamed/part_000.
C18_AssignsOverLiveElements ==
    [][/\ (last'.op = "CopyAssign" /\ last'.failed = "none") =>
              \A v \in objs, rhs \in objs :
                  \A ft \in Faults(vec[rhs].size_) :
                      CopyAssignAt(v, rhs, ft) =>
                          C18_InPlace(v, rhs, VectorCopyAssign(Start(ft), v, rhs))
       /\ (last'.op = "CopyAssignPart000" /\ last'.failed = "none") =>
              \A v \in objs, rhs \in objs :
                  \A ft \in Faults(vec[rhs].size_) :
                      CopyAssignPart000At(v, rhs, ft) =>
                          C18_InPlace(v, rhs, VectorCopyAssignPart000(Start(ft), v, rhs))]_vars

\* ------------------------------------------------------------------ C19
\* C19: an Insert at index i of a reference to element j of the same vector
\* that does not fail leaves at index i the value element j had when the
\* call was made, with spare capacity and without.
C19_InsertsValueOfElement ==
    [][(last'.op = "InsertElement" /\ last'.failed = "none") =>
          \A v \in objs :
              \A index \in 0..vec[v].size_, j \in 0..(vec[v].size_ - 1),
                 ft \in Faults(vec[v].size_ + 2) :
                  InsertElementAt(v, index, j, ft) =>
                      SlotAt(heap', vec'[v], index) = SlotAt(heap, vec[v], j)]_vars

\* ------------------------------------------------------------------ C20
\* C20: no block is passed to operator delete twice, and once every
\* RawMemory is destroyed no block obtained from operator new is left
\* allocated.
C20_EachBlockFreedOnce ==
    /\ ~err.dblFree
    /\ (\A r \in Raws : ~raw[r].alive) => (\A p \in Blocks : ~heap[p].live)

\* ------------------------------------------------------------------ C21
\* C21: when an EmplaceBack/PushBack takes the growth path, has constructed
\* the new element in the new buffer and the relocation of an existing
\* element then fails, the new buffer is freed with no constructed element
\* left in it: the call leaks no element.
C21_GrowthFailureLeaksNothing ==
    [][/\ (last'.op = "EmplaceBack" /\ last'.path = "realloc" /\ last'.failed = "elem") =>
              \A v \in objs, x \in Values :
                  \A ft \in Faults(vec[v].size_ + 1) :
                      (ft.f >= 2 /\ EmplaceBackAt(v, x, ft)) => ~err'.leak
       /\ (last'.op = "PushBack" /\ last'.path = "realloc" /\ last'.failed = "elem") =>
              \A v \in objs, x \in Values :
                  \A ft \in Faults(vec[v].size_ + 1) :
                      (ft.f >= 2 /\ PushBackAt(v, x, ft)) => ~err'.leak]_vars

====
